---- MODULE Spec2Model ----
(***************************************************************************)
(* Model of the calculator program of src/src/lib.rs: the entrypoint       *)
(* handle_instruction, the borsh layout of CalcResult and the account      *)
(* records the runtime hands to the program.                               *)
(*                                                                         *)
(* A u32 does not fit the integers of the model checker, so a u32 value is *)
(* kept as two 16-bit limbs [hi, lo] and the arithmetic of the program is  *)
(* done on the limbs with carry and borrow: the width is the full 32 bits. *)
(* Byte buffers are sequences of bytes 0..255.                             *)
(***************************************************************************)
EXTENDS Integers, Sequences, FiniteSets, TLC

VARIABLES
    ledger,            \* account key -> [owner, data]: the account records
    instruction_data,  \* the bytes of the instruction being processed
    accounts,          \* the account list of the instruction being processed
    pc,                \* "idle", or "called" while an invocation is pending
    result,            \* what the last invocation returned
    log,               \* the messages the last invocation logged
    borrows,           \* the borrows of account data the last invocation took
    overflow_checks,   \* the build traps u32 overflow (debug) or wraps (release)
    last_add,          \* history: bytes of the sum of the last successful add
    last_sub           \* history: bytes of the difference of the last successful subtract

vars == <<ledger, instruction_data, accounts, pc, result, log, borrows,
          overflow_checks, last_add, last_sub>>

(***************************************************************************)
(* Bounds of the model.                                                    *)
(***************************************************************************)
\* longest account list the runtime passes to one invocation
MaxAccounts == 2

(***************************************************************************)
(* u32 values and their little-endian byte form.                           *)
(***************************************************************************)
Limb == 256 * 256

U32(h, l) == [hi |-> h, lo |-> l]

\* u32::from_le_bytes on a 4-byte slice
u32_from_le_bytes(b) == [lo |-> b[1] + 256 * b[2], hi |-> b[3] + 256 * b[4]]

u32_to_be_bytes(v) ==
    <<v.hi \div 256, v.hi % 256, v.lo \div 256, v.lo % 256>>

\* u32::to_le_bytes, also the borsh encoding of a u32
u32_to_le_bytes(v) ==
    <<v.lo % 256, v.lo \div 256, v.hi % 256, v.hi \div 256>>

\* num1 + num2 leaves the range of u32
add_overflows(x, y) ==
    x.hi + y.hi + ((x.lo + y.lo) \div Limb) >= Limb

\* num1 + num2 reduced to 32 bits
u32_add(x, y) ==
    [lo |-> (x.lo + y.lo) % Limb,
     hi |-> (x.hi + y.hi + ((x.lo + y.lo) \div Limb)) % Limb]

\* num1 >= num2
u32_ge(x, y) == x.hi > y.hi \/ (x.hi = y.hi /\ x.lo >= y.lo)

u32_sub_no_borrow(x, y) ==
    [lo |-> (x.lo - y.lo + Limb) % Limb, hi |-> (x.hi - y.hi + Limb) % Limb]

\* num1 - num2, used only under num1 >= num2
u32_sub(x, y) ==
    [lo |-> (x.lo - y.lo + Limb) % Limb,
     hi |-> (x.hi - y.hi - (IF x.lo < y.lo THEN 1 ELSE 0) + Limb) % Limb]

(***************************************************************************)
(* CalcResult and its borsh codec.                                         *)
(***************************************************************************)
CalcResult(a, s) == [add_result |-> a, sub_result |-> s]

try_from_slice_prefix(buf) ==
    IF Len(buf) < 8
    THEN [ok |-> FALSE, err |-> "BorshIoError",
          value |-> CalcResult(U32(0, 0), U32(0, 0))]
    ELSE [ok |-> TRUE, err |-> "none",
          value |-> CalcResult(u32_from_le_bytes(SubSeq(buf, 1, 4)),
                               u32_from_le_bytes(SubSeq(buf, 5, 8)))]

\* CalcResult::try_from_slice: reads two u32 and rejects a slice that is too
\* short as well as one with bytes left over.
try_from_slice(buf) ==
    IF Len(buf) # 8
    THEN [ok |-> FALSE, err |-> "BorshIoError",
          value |-> CalcResult(U32(0, 0), U32(0, 0))]
    ELSE [ok |-> TRUE, err |-> "none",
          value |-> CalcResult(u32_from_le_bytes(SubSeq(buf, 1, 4)),
                               u32_from_le_bytes(SubSeq(buf, 5, 8)))]

\* calc_data.serialize(&mut &mut data[..]): writes 8 bytes at the start of
\* the slice and fails when the slice cannot take them.
serialize(calc_data, buf) ==
    IF Len(buf) < 8
    THEN [ok |-> FALSE, err |-> "BorshIoError", data |-> buf]
    ELSE [ok |-> TRUE, err |-> "none",
          data |-> u32_to_le_bytes(calc_data.add_result)
                   \o u32_to_le_bytes(calc_data.sub_result)
                   \o SubSeq(buf, 9, Len(buf))]

(***************************************************************************)
(* The steps of handle_instruction.                                        *)
(***************************************************************************)
instruction_size_at_least(data) == Len(data) >= 12

\* the size test on instruction_data
instruction_size_ok(data) == Len(data) = 12

\* next_account_info on a fresh iterator over accounts
next_account_info(accs) ==
    IF Len(accs) = 0
    THEN [ok |-> FALSE, err |-> "NotEnoughAccountKeys", key |-> "none"]
    ELSE [ok |-> TRUE, err |-> "none", key |-> accs[1]]

owner_unchecked(owner, pid) == TRUE

\* calc_account.owner == program_id
owner_matches(owner, pid) == owner = pid

\* arm 0 of the match: the addition; with overflow checks a sum that leaves
\* u32 aborts the program
op_add(calc_data, num1, num2, checks) ==
    IF checks /\ add_overflows(num1, num2)
    THEN [kind |-> "Panic", err |-> "Panic", calc_data |-> calc_data,
          log |-> << >>]
    ELSE [kind |-> "Ok", err |-> "none",
          calc_data |-> [calc_data EXCEPT !.add_result = u32_add(num1, num2)],
          log |-> << <<"Addition result: {}", u32_add(num1, num2)>> >>]

op_sub_unguarded(calc_data, num1, num2) ==
    [kind |-> "Ok", err |-> "none",
     calc_data |-> [calc_data EXCEPT !.sub_result = u32_sub(num1, num2)],
     log |-> << <<"Subtraction result: {}", u32_sub(num1, num2)>> >>]

\* arm 1 of the match: the guarded subtraction
op_sub(calc_data, num1, num2) ==
    IF u32_ge(num1, num2)
    THEN [kind |-> "Ok", err |-> "none",
          calc_data |-> [calc_data EXCEPT !.sub_result = u32_sub(num1, num2)],
          log |-> << <<"Subtraction result: {}", u32_sub(num1, num2)>> >>]
    ELSE [kind |-> "Err", err |-> "InvalidArgument", calc_data |-> calc_data,
          log |-> << <<"Invalid subtraction operation: num1 is less than num2">> >>]

op_other_ignored(calc_data) ==
    [kind |-> "Ok", err |-> "none", calc_data |-> calc_data, log |-> << >>]

op_other_as_data_error(calc_data) ==
    [kind |-> "Err", err |-> "InvalidInstructionData", calc_data |-> calc_data,
     log |-> << <<"Invalid operation choice">> >>]

\* the default arm of the match
op_other(calc_data) ==
    [kind |-> "Err", err |-> "InvalidArgument", calc_data |-> calc_data,
     log |-> << <<"Invalid operation choice">> >>]

\* the match on operation
match_operation(calc_data, num1, num2, operation, checks) ==
    IF operation = U32(0, 0) THEN op_add(calc_data, num1, num2, checks)
    ELSE IF operation = U32(0, 1) THEN op_sub(calc_data, num1, num2)
    ELSE op_other(calc_data)

store_last(led, accs, key, data) == [led EXCEPT ![accs[Len(accs)]].data = data]

\* the write through calc_account.data.borrow_mut()
store(led, accs, key, data) == [led EXCEPT ![key].data = data]

\* the body of handle_instruction: the returned value, the messages logged
\* and the account records after the call
process(pid, accs, data, led, checks) ==
    LET log0 == << <<"Calculator program entrypoint">> >> IN
    IF ~instruction_size_ok(data)
    THEN [result |-> "InvalidInstructionData",
          log |-> Append(log0, <<"Invalid instruction data size">>),
          ledger |-> led, borrows |-> << >>]
    ELSE
    LET num1 == u32_from_le_bytes(SubSeq(data, 1, 4))
        num2 == u32_from_le_bytes(SubSeq(data, 5, 8))
        operation == u32_from_le_bytes(SubSeq(data, 9, 12))
        acc == next_account_info(accs)
    IN
    IF ~acc.ok
    THEN [result |-> acc.err, log |-> log0, ledger |-> led, borrows |-> << >>]
    ELSE
    LET calc_account == acc.key IN
    IF ~owner_matches(led[calc_account].owner, pid)
    THEN [result |-> "IncorrectProgramId",
          log |-> Append(log0, <<"Calculator account does not have the correct program id">>),
          ledger |-> led, borrows |-> << >>]
    ELSE
    LET dec == try_from_slice(led[calc_account].data)
        rd == << <<"borrow", calc_account>> >>
    IN
    IF ~dec.ok
    THEN [result |-> dec.err, log |-> log0, ledger |-> led, borrows |-> rd]
    ELSE
    LET m == match_operation(dec.value, num1, num2, operation, checks) IN
    IF m.kind # "Ok"
    THEN [result |-> m.err, log |-> log0 \o m.log, ledger |-> led,
          borrows |-> rd]
    ELSE
    LET ser == serialize(m.calc_data, led[calc_account].data)
        wr == Append(rd, <<"borrow_mut", calc_account>>)
    IN
    IF ~ser.ok
    THEN [result |-> ser.err, log |-> log0 \o m.log, ledger |-> led,
          borrows |-> wr]
    ELSE [result |-> "Ok", log |-> log0 \o m.log,
          ledger |-> store(led, accs, calc_account, ser.data),
          borrows |-> wr]

(***************************************************************************)
(* The environment: the program's identity, the account records, and the   *)
(* instructions and account lists the runtime may pass.                    *)
(***************************************************************************)
program_id == "calculator"

Keys == {"calc", "foreign", "short", "long"}

Zeros(n) == [i \in 1..n |-> 0]

\* the account records as the allocator leaves them: zero-filled
InitLedger ==
    [k \in Keys |->
        CASE k = "calc"    -> [owner |-> program_id, data |-> Zeros(8)]
          [] k = "foreign" -> [owner |-> "other", data |-> Zeros(8)]
          [] k = "short"   -> [owner |-> program_id, data |-> Zeros(4)]
          [] k = "long"    -> [owner |-> program_id, data |-> Zeros(12)]]

\* operands as the client encodes them: 30, 100, 65586 and 2^32 - 1
Operands == {<<30, 0, 0, 0>>, <<100, 0, 0, 0>>, <<50, 0, 1, 0>>,
             <<255, 255, 255, 255>>}

\* selectors: add, subtract and 2; WellSized adds one with 256 (low byte 0)
Selectors == {<<0, 0, 0, 0>>, <<1, 0, 0, 0>>, <<2, 0, 0, 0>>}

\* [num1.to_le_bytes(), num2.to_le_bytes(), operation.to_le_bytes()].concat()
WellSized ==
    {a \o b \o o : a \in Operands, b \in Operands, o \in Selectors}
    \cup {<<100, 0, 0, 0>> \o <<30, 0, 0, 0>> \o <<0, 1, 0, 0>>}

\* byte strings of another length
WrongSized ==
    {<< >>,
     <<100, 0, 0, 0>> \o <<30, 0, 0, 0>> \o <<0, 0, 0>>,
     <<100, 0, 0, 0>> \o <<30, 0, 0, 0>> \o <<1, 0, 0, 0, 0>>}

InstructionInputs == WellSized \cup WrongSized

\* account lists: any first account, then further accounts
Extras == {"calc", "foreign"}

RECURSIVE ExtraLists(_)
ExtraLists(n) ==
    IF n = 0 THEN {<< >>}
    ELSE ExtraLists(n - 1) \cup
         {Append(s, k) : s \in {t \in ExtraLists(n - 1) : Len(t) = n - 1},
                         k \in Extras}

AccountLists ==
    {<< >>} \cup {<<k>> \o s : k \in Keys, s \in ExtraLists(MaxAccounts - 1)}

(***************************************************************************)
(* Arithmetic of the instruction layout on the bytes themselves, used to   *)
(* state the expected results independently of the limbs above.            *)
(***************************************************************************)
operand_a(data) == SubSeq(data, 1, 4)
operand_b(data) == SubSeq(data, 5, 8)
selector(data) == SubSeq(data, 9, 12)

Carry1(x, y) == (x[1] + y[1]) \div 256
Carry2(x, y) == (x[2] + y[2] + Carry1(x, y)) \div 256
Carry3(x, y) == (x[3] + y[3] + Carry2(x, y)) \div 256
Carry4(x, y) == (x[4] + y[4] + Carry3(x, y)) \div 256

\* (x + y) mod 2^32 on 4-byte little-endian numbers
BytesSum(x, y) ==
    <<(x[1] + y[1]) % 256,
      (x[2] + y[2] + Carry1(x, y)) % 256,
      (x[3] + y[3] + Carry2(x, y)) % 256,
      (x[4] + y[4] + Carry3(x, y)) % 256>>

\* x + y >= 2^32
SumExceeds(x, y) == Carry4(x, y) = 1

\* x < y
BytesLess(x, y) ==
    \E i \in 1..4 : x[i] < y[i] /\ \A j \in (i + 1)..4 : x[j] = y[j]

Borrow1(x, y) == IF x[1] < y[1] THEN 1 ELSE 0
Borrow2(x, y) == IF x[2] < y[2] + Borrow1(x, y) THEN 1 ELSE 0
Borrow3(x, y) == IF x[3] < y[3] + Borrow2(x, y) THEN 1 ELSE 0

\* x - y for x >= y
BytesDiff(x, y) ==
    <<(x[1] - y[1] + 256) % 256,
      (x[2] - y[2] - Borrow1(x, y) + 256) % 256,
      (x[3] - y[3] - Borrow2(x, y) + 256) % 256,
      (x[4] - y[4] - Borrow3(x, y) + 256) % 256>>

add_bytes(buf) == SubSeq(buf, 1, 4)
sub_bytes(buf) == SubSeq(buf, 5, 8)

(***************************************************************************)
(* The state machine.                                                      *)
(***************************************************************************)
Init ==
    /\ ledger = InitLedger
    /\ instruction_data = << >>
    /\ accounts = << >>
    /\ pc = "idle"
    /\ result = "none"
    /\ log = << >>
    /\ borrows = << >>
    /\ overflow_checks \in BOOLEAN
    /\ last_add = Zeros(4)
    /\ last_sub = Zeros(4)

\* the runtime delivers one instruction with its account list
Invoke ==
    /\ pc = "idle"
    /\ \E data \in InstructionInputs, accs \in AccountLists :
          /\ instruction_data' = data
          /\ accounts' = accs
    /\ pc' = "called"
    /\ result' = "none"
    /\ log' = << >>
    /\ borrows' = << >>
    /\ UNCHANGED <<ledger, overflow_checks, last_add, last_sub>>

\* the call is on "calc" and asks for this operation
OnCalc(sel) ==
    /\ Len(instruction_data) = 12
    /\ Len(accounts) > 0
    /\ accounts[1] = "calc"
    /\ selector(instruction_data) = sel

\* handle_instruction runs to its return
handle_instruction ==
    /\ pc = "called"
    /\ LET r == process(program_id, accounts, instruction_data, ledger,
                        overflow_checks)
       IN /\ result' = r.result
          /\ log' = r.log
          /\ borrows' = r.borrows
          /\ ledger' = r.ledger
          /\ last_add' = IF r.result = "Ok" /\ OnCalc(<<0, 0, 0, 0>>)
                         THEN BytesSum(operand_a(instruction_data),
                                       operand_b(instruction_data))
                         ELSE last_add
          /\ last_sub' = IF r.result = "Ok" /\ OnCalc(<<1, 0, 0, 0>>)
                         THEN BytesDiff(operand_a(instruction_data),
                                        operand_b(instruction_data))
                         ELSE last_sub
    /\ pc' = "idle"
    /\ instruction_data' = << >>
    /\ accounts' = << >>
    /\ UNCHANGED overflow_checks

Next == Invoke \/ handle_instruction

Spec == Init /\ [][Next]_vars

(***************************************************************************)
(* The error kinds of the specification and the values the program returns *)
(* for them.                                                               *)
(***************************************************************************)
InvalidInstructionSize == "InvalidInstructionData"
MissingAccount == "NotEnoughAccountKeys"
UnauthorizedAccount == "IncorrectProgramId"
MalformedState == "BorshIoError"
SubtractionUnderflow == "InvalidArgument"
UnsupportedOperation == "InvalidArgument"

(***************************************************************************)
(* Vocabulary of the properties.                                           *)
(***************************************************************************)
Add == <<0, 0, 0, 0>>
Sub == <<1, 0, 0, 0>>

Called == pc = "called"
Returned == pc = "idle" /\ result # "none"

NumA == operand_a(instruction_data)
NumB == operand_b(instruction_data)

CalcBuf == ledger["calc"].data

LastLog == IF Len(log) = 0 THEN "none" ELSE log[Len(log)][1]

MsgUnderflow == "Invalid subtraction operation: num1 is less than num2"
MsgChoice == "Invalid operation choice"

\* a 12-byte instruction whose first account is program-owned and holds a
\* decodable 8-byte state
ValidCall ==
    /\ Called
    /\ Len(instruction_data) = 12
    /\ Len(accounts) > 0
    /\ ledger[accounts[1]].owner = program_id
    /\ Len(ledger[accounts[1]].data) = 8

FirstBuf == ledger[accounts[1]].data

(***************************************************************************)
(* Properties.                                                             *)
(***************************************************************************)

\* C1: an add (selector 0) on a program-owned account with a decodable state
\* succeeds for every operand pair, leaves add_result = (a + b) mod 2^32 and
\* keeps sub_result, also when a + b >= 2^32.
C1_AddWrapsForAllOperands ==
    [][(ValidCall /\ selector(instruction_data) = Add)
        => /\ result' = "Ok"
           /\ add_bytes(ledger'[accounts[1]].data) = BytesSum(NumA, NumB)
           /\ sub_bytes(ledger'[accounts[1]].data) = sub_bytes(FirstBuf)]_vars

\* C2: a subtract (selector 1) with a >= b on a program-owned account with a
\* decodable state succeeds, leaves sub_result = a - b and keeps add_result.
C2_SubtractStoresDifference ==
    [][(ValidCall /\ selector(instruction_data) = Sub /\ ~BytesLess(NumA, NumB))
        => /\ result' = "Ok"
           /\ sub_bytes(ledger'[accounts[1]].data) = BytesDiff(NumA, NumB)
           /\ add_bytes(ledger'[accounts[1]].data) = add_bytes(FirstBuf)
           /\ Len(ledger'[accounts[1]].data) = 8]_vars

\* C2 witness: 65586 - 100 = 65486 was stored (a borrow between the halves)
\* next to an earlier sum.
C2_Witness ==
    /\ Returned /\ result = "Ok"
    /\ LastLog = "Subtraction result: {}"
    /\ sub_bytes(CalcBuf) = <<206, 255, 0, 0>>
    /\ add_bytes(CalcBuf) # Zeros(4)

\* C3: a subtract with a < b that reaches the operation (program-owned
\* account, decodable state) fails with SubtractionUnderflow and leaves every
\* account record as it was.
C3_UnderflowRejected ==
    [][(ValidCall /\ selector(instruction_data) = Sub /\ BytesLess(NumA, NumB))
        => /\ result' = SubtractionUnderflow
           /\ ledger' = ledger]_vars

\* C3 witness: an underflowing subtract was rejected on a state that holds
\* earlier results.
C3_Witness ==
    /\ Returned /\ result = SubtractionUnderflow
    /\ LastLog = MsgUnderflow
    /\ add_bytes(CalcBuf) # Zeros(4)
    /\ sub_bytes(CalcBuf) # Zeros(4)

\* C4: a selector other than 0 and 1 that reaches the operation fails with
\* UnsupportedOperation whatever the operands and leaves every account record
\* as it was.
C4_UnsupportedRejected ==
    [][(ValidCall /\ selector(instruction_data) \notin {Add, Sub})
        => /\ result' = UnsupportedOperation
           /\ ledger' = ledger]_vars

\* C4 witness: an unsupported selector was rejected on a state that holds
\* earlier results.
C4_Witness ==
    /\ Returned /\ result = UnsupportedOperation
    /\ LastLog = MsgChoice
    /\ CalcBuf # Zeros(8)

\* C5: an instruction whose length is not 12 fails with
\* InvalidInstructionSize whatever the account list is (empty, foreign first
\* account, malformed buffer), borrows no account data and changes nothing.
C5_WrongSizeRejectedFirst ==
    [][(Called /\ Len(instruction_data) # 12)
        => /\ result' = InvalidInstructionSize
           /\ borrows' = << >>
           /\ ledger' = ledger]_vars

\* C5 witness: a call was rejected for its size without any borrow.
C5_Witness ==
    /\ Returned /\ result = InvalidInstructionSize
    /\ LastLog = "Invalid instruction data size"
    /\ borrows = << >>

\* C6 as stated: a first account owned by another program makes the call fail
\* with UnauthorizedAccount for every instruction byte sequence, wrong
\* lengths included.
C6_UnauthorizedForAnyBytes ==
    [][(Called /\ Len(accounts) > 0 /\ ledger[accounts[1]].owner # program_id)
        => /\ result' = UnauthorizedAccount
           /\ ledger' = ledger]_vars

\* C6 amended: a first account owned by another program makes the call fail
\* with UnauthorizedAccount for every 12-byte instruction (any selector, any
\* operands), and with InvalidInstructionSize for every other length; the
\* account records are unchanged in both cases.
C6_UnauthorizedForWellSized ==
    [][(Called /\ Len(accounts) > 0 /\ ledger[accounts[1]].owner # program_id)
        => /\ result' = IF Len(instruction_data) = 12
                        THEN UnauthorizedAccount
                        ELSE InvalidInstructionSize
           /\ borrows' = << >>
           /\ ledger' = ledger]_vars

\* C6 witness: a call was rejected for the owner of its first account.
C6_Witness ==
    /\ Returned /\ result = UnauthorizedAccount
    /\ LastLog = "Calculator account does not have the correct program id"
    /\ ledger["foreign"].data = Zeros(8)

\* the scenario of C7 on the zero-filled account
C7_Scenario ==
    /\ (/\ ValidCall /\ accounts[1] = "calc" /\ CalcBuf = Zeros(8)
        /\ instruction_data = <<100, 0, 0, 0, 30, 0, 0, 0, 0, 0, 0, 0>>)
       => ledger'["calc"].data = <<130, 0, 0, 0, 0, 0, 0, 0>>
    /\ (/\ ValidCall /\ accounts[1] = "calc"
        /\ CalcBuf = <<130, 0, 0, 0, 0, 0, 0, 0>>
        /\ instruction_data = <<100, 0, 0, 0, 30, 0, 0, 0, 1, 0, 0, 0>>)
       => ledger'["calc"].data = <<130, 0, 0, 0, 70, 0, 0, 0>>
    /\ (/\ ValidCall /\ accounts[1] = "calc"
        /\ CalcBuf = <<130, 0, 0, 0, 70, 0, 0, 0>>
        /\ instruction_data = <<30, 0, 0, 0, 100, 0, 0, 0, 1, 0, 0, 0>>)
       => (result' # "Ok" /\ ledger'["calc"].data = <<130, 0, 0, 0, 70, 0, 0, 0>>)

\* C7: on the account that starts zero-filled, add_result is the sum of the
\* most recent successful add and sub_result the difference of the most
\* recent successful subtract (0 when there was none), whatever rejected
\* calls are interleaved; (100,30,add), (100,30,subtract), (30,100,subtract)
\* from {0,0} give {130,0}, {130,70} and a failure that keeps {130,70}.
C7_LatestSuccessfulResults ==
    /\ [](add_bytes(CalcBuf) = last_add /\ sub_bytes(CalcBuf) = last_sub)
    /\ [][C7_Scenario]_vars

\* C7 witness: the end of the scenario, {130, 70} after a rejected subtract.
C7_Witness ==
    /\ Returned /\ result # "Ok"
    /\ LastLog = MsgUnderflow
    /\ CalcBuf = <<130, 0, 0, 0, 70, 0, 0, 0>>
    /\ last_add = <<130, 0, 0, 0>> /\ last_sub = <<70, 0, 0, 0>>

\* C8: an invocation that returns an error leaves every account record as it
\* was; the mutable borrow is taken only by a successful invocation and is its
\* last borrow; a successful invocation changes the first account's buffer
\* only.
C8_WriteOnlyOnSuccess ==
    [][Called
        => /\ (result' # "Ok" => ledger' = ledger)
           /\ \A i \in 1..Len(borrows') :
                 borrows'[i][1] = "borrow_mut"
                    => (result' = "Ok" /\ i = Len(borrows')
                        /\ borrows'[i][2] = accounts[1])
           /\ (result' = "Ok"
                 => /\ \A k \in Keys \ {accounts[1]} : ledger'[k] = ledger[k]
                    /\ ledger'[accounts[1]].owner = ledger[accounts[1]].owner)]_vars

\* C8 witness: a successful call with a second account in its list has
\* written the first account and no other.
C8_Witness ==
    /\ Returned /\ result = "Ok"
    /\ Len(borrows) = 2 /\ borrows[2] = <<"borrow_mut", "calc">>
    /\ CalcBuf # Zeros(8)
    /\ \A k \in Keys \ {"calc"} : ledger[k] = InitLedger[k]

\* C9: a 12-byte instruction on a program-owned first account whose buffer is
\* not 8 bytes long fails with MalformedState whatever the operands and the
\* selector, and leaves every account record as it was.
C9_MalformedStateRejected ==
    [][(/\ Called /\ Len(instruction_data) = 12 /\ Len(accounts) > 0
        /\ ledger[accounts[1]].owner = program_id
        /\ Len(ledger[accounts[1]].data) # 8)
        => /\ result' = MalformedState
           /\ ledger' = ledger]_vars

\* C9 witness: a call on the 4-byte account was rejected at the decoding.
C9_Witness ==
    /\ Returned /\ result = MalformedState
    /\ borrows = << <<"borrow", "short">> >>

\* C10 as stated: the error returned for an unsupported selector is another
\* value than the one returned for a subtract with a < b.
C10_DistinctErrorValues ==
    (Returned /\ LastLog = MsgChoice) => result # SubtractionUnderflow

\* C10 amended: a subtract with a < b and an unsupported selector return the
\* same error value, InvalidArgument, which no other failure cause returns;
\* the two causes differ in the logged message only.
C10_SharedErrorValue ==
    [][Called
        => /\ (result' = "InvalidArgument") =
              (ValidCall /\ \/ selector(instruction_data) \notin {Add, Sub}
                            \/ /\ selector(instruction_data) = Sub
                               /\ BytesLess(NumA, NumB))
           /\ (result' = "InvalidArgument"
                 => log'[Len(log')][1] =
                       IF selector(instruction_data) = Sub
                       THEN MsgUnderflow ELSE MsgChoice)]_vars

\* C10 witness: an unsupported selector was answered with the error value of
\* the underflow.
C10_Witness ==
    /\ Returned /\ LastLog = MsgChoice
    /\ result = "InvalidArgument"
    /\ Len(log) = 2

TypeOK ==
    /\ pc \in {"idle", "called"}
    /\ result \in {"none", "Ok", "Panic", "InvalidInstructionData",
                   "NotEnoughAccountKeys", "IncorrectProgramId",
                   "BorshIoError", "InvalidArgument"}
    /\ \A k \in Keys : Len(ledger[k].data) = Len(InitLedger[k].data)
====
